---- MODULE Spec2Model ----
(***************************************************************************)
(* Model of the per-user download queue, the global download semaphore,    *)
(* the queue persistence and the owner processing loops of src/bot.py,     *)
(* and of one download_media call with its ProgressManager.                *)
(*                                                                         *)
(* The program runs on one asyncio event loop: code between two awaits is  *)
(* one atomic step.  Each action below is one such step of a coroutine.    *)
(***************************************************************************)
EXTENDS Integers, Sequences, FiniteSets, Bags, TLC

\* ------------------------------------------------------------------ bounds
NumOwners == 2
MaxTasks == 4
MaxBusyTasks == 5
MaxTicks == 4            \* clock ticks (half seconds) followed during one download

\* ------------------------------------------------------- program constants
GLOBAL_MAX_CONCURRENT_DOWNLOADS == 3
TELEGRAM_SAFE_MAX_BYTES == 51380224
MIN_FILE_BYTES == 1024   \* "if file_size < 1024"
THROTTLE_TICKS == 3      \* 1.5 s, in half seconds

VARIABLES
    DOWNLOAD_QUEUE,      \* dict: user_id_str -> list of task dicts
    QUEUE_FILE,          \* content of queue.json, or NoFile
    DOWNLOAD_SEMAPHORE,  \* asyncio.Semaphore: [value, waiters]
    loops,               \* bag of live process_queue_for_user coroutines
    handler,             \* the update handler in progress, or Idle
    submitted,           \* number of queue_download calls so far (input counter)
    users,               \* number of users seen so far (users are numbered by first submission)
    admitted,            \* history: <<user, url>> of the tasks that entered download_media
    cleared,             \* history: urls of the tasks that cancel_handler removed from a list
    pipe,                \* the download_media call that is followed step by step: its locals
    progress,            \* its ProgressManager: [message, last_update_text, last_update_time]
    disk,                \* the files of its task that exist in DOWNLOAD_DIR (by extension)
    chat,                \* history: what the user has received for this task
    now                  \* time.time(), in half seconds

queueVars == <<DOWNLOAD_QUEUE, QUEUE_FILE, DOWNLOAD_SEMAPHORE, loops, handler,
               submitted, users, admitted, cleared>>

pipeVars == <<pipe, progress, disk, chat, now>>

vars == <<DOWNLOAD_QUEUE, QUEUE_FILE, DOWNLOAD_SEMAPHORE, loops, handler,
          submitted, users, admitted, cleared, pipe, progress, disk, chat, now>>

\* ------------------------------------------------------------ input domains
UserIds == 1..NumOwners

\* str(update.effective_user.id)
str(n) ==
    CASE n = 1 -> "1" [] n = 2 -> "2" [] n = 3 -> "3" [] n = 4 -> "4"
      [] n = 5 -> "5" [] n = 6 -> "6" [] n = 7 -> "7" [] n = 8 -> "8"
      [] OTHER -> "9"

\* the n-th link submitted: every submission carries a fresh url
UrlOf(n) ==
    CASE n = 1 -> "url1" [] n = 2 -> "url2" [] n = 3 -> "url3" [] n = 4 -> "url4"
      [] n = 5 -> "url5" [] n = 6 -> "url6" [] n = 7 -> "url7" [] n = 8 -> "url8"
      [] OTHER -> "url9"

UrlIndex(u) == CHOOSE n \in 1..9 : UrlOf(n) = u

\* Python values of the optional task fields
PyNone == [ty |-> "NoneType"]
PyStr(s) == [ty |-> "str", v |-> s]

\* what the conversation leaves in context.user_data for the n-th submission
FormatChoiceOf(n) == IF n % 2 = 1 THEN "mp4" ELSE "mp3"
QualityIdOf(n) == IF n % 2 = 1 THEN PyStr("137") ELSE PyStr("bestaudio")
CustomFilenameOf(n) == IF n % 2 = 1 THEN PyStr("name") ELSE PyNone

NoFile == [exists |-> FALSE]
Idle == [op |-> "idle"]
NoTask == [url |-> "none"]

\* ------------------------------------------------------------- JSON (json.dump / json.load)
JNull == [j |-> "null"]
JNumber(n) == [j |-> "number", n |-> n]
JString(s) == [j |-> "string", s |-> s]

\* faulty variant: None written as the text of str(None)
JsonOfOptionalAsStr(x) == IF x.ty = "NoneType" THEN JString("None") ELSE JString(x.v)

JsonOfOptional(x) == IF x.ty = "NoneType" THEN JNull ELSE JString(x.v)

OptionalOfJson(x) == IF x.j = "null" THEN PyNone ELSE PyStr(x.s)

JsonOfTask(t) ==
    [chat_id |-> JNumber(t.chat_id),
     url |-> JString(t.url),
     format_choice |-> JString(t.format_choice),
     quality_id |-> JsonOfOptional(t.quality_id),
     custom_filename |-> JsonOfOptional(t.custom_filename)]

TaskOfJson(o) ==
    [chat_id |-> o.chat_id.n,
     url |-> o.url.s,
     format_choice |-> o.format_choice.s,
     quality_id |-> OptionalOfJson(o.quality_id),
     custom_filename |-> OptionalOfJson(o.custom_filename)]

JsonDump(d) == [k \in DOMAIN d |-> [i \in 1..Len(d[k]) |-> JsonOfTask(d[k][i])]]
JsonLoad(o) == [k \in DOMAIN o |-> [i \in 1..Len(o[k]) |-> TaskOfJson(o[k][i])]]

\* ------------------------------------------------------------- queue persistence
\* faulty variant: the write is skipped, the file stays as it was
save_queue_skipped(queue) == QUEUE_FILE

\* save_queue_to_disk(): the file content after the write
save_queue_to_disk(queue) == [exists |-> TRUE, text |-> JsonDump(queue)]

\* what open("w") leaves when the write fails after it: a file that json.load
\* rejects, which load_queue_from_disk turns into {} (lines 211-213)
TruncatedFile == [exists |-> TRUE, text |-> [k \in {} |-> <<>>], truncated |-> TRUE]

WriteOutcomes == {"written", "open failed", "write failed"}

\* lines 195-201 with the IOError that they catch and log: the file after the call
save_queue_to_disk_io(queue, file, io) ==
    CASE io = "written" -> save_queue_to_disk(queue)
      [] io = "open failed" -> file
      [] OTHER -> TruncatedFile

\* load_queue_from_disk(): DOWNLOAD_QUEUE after the call, from its value before
load_queue_from_disk(file, before) ==
    IF file.exists THEN JsonLoad(file.text) ELSE before

\* ------------------------------------------------------------- dict helpers
EmptyDict == [k \in {} |-> <<>>]

\* DOWNLOAD_QUEUE.get(user_id): None (falsy) when the key is missing
Get(queue, k) == IF k \in DOMAIN queue THEN queue[k] ELSE <<>>

SetItem(queue, k, val) ==
    [x \in DOMAIN queue \cup {k} |-> IF x = k THEN val ELSE queue[x]]

Range(s) == {s[i] : i \in DOMAIN s}

Restrict(bag, S) == [l \in S |-> bag[l]]

\* ------------------------------------------------------------- asyncio.Semaphore
\* Semaphore(GLOBAL_MAX_CONCURRENT_DOWNLOADS)
NewSemaphore == [value |-> GLOBAL_MAX_CONCURRENT_DOWNLOADS, waiters |-> <<>>]

\* faulty variant: the test of acquire() off by one
SemCanEnterOffByOne(sem) == sem.value >= 0

\* acquire(): "while self._value <= 0: wait on a new future"; a coroutine that
\* arrives (or resumes) while value > 0 takes the permit at once
SemCanEnter(sem) == sem.value > 0

SemEnter(sem) == [sem EXCEPT !.value = @ - 1]

SemWait(sem, fut) == [sem EXCEPT !.waiters = Append(@, fut)]

\* faulty variant: the permit is not given back
SemReleaseLeak(sem) ==
    [value |-> sem.value,
     waiters |-> IF sem.waiters = <<>> THEN <<>> ELSE Tail(sem.waiters)]

\* release(): value += 1, then the first waiting future is popped and set done
SemRelease(sem) ==
    [value |-> sem.value + 1,
     waiters |-> IF sem.waiters = <<>> THEN <<>> ELSE Tail(sem.waiters)]

\* ------------------------------------------------------------- coroutines
\* a process_queue_for_user coroutine: its user, where it stands, the task it
\* popped, (history) whether its user cancelled while the task waited for a
\* permit, and the futures (named by their task's url) that were set done before
\* the coroutine began its current await of a timer or of the network: the event
\* loop resumes the waiters of those futures first
LoopAfter(k, pc, task, behind) ==
    [owner |-> k, pc |-> pc, task |-> task, cancelled |-> FALSE, behind |-> behind]

Loop(k, pc, task) == LoopAfter(k, pc, task, {})

\* the futures that are set done and whose waiter has not resumed yet
WokenFutures(bag) == {l.task.url : l \in {x \in BagToSet(bag) : x.pc = "woken"}}

\* the event loop runs the callbacks in the order in which they were scheduled
MayRun(l) == l.behind \cap WokenFutures(loops) = {}

Waiting(l) == l.pc \in {"acquire", "woken"}

LoopSet == BagToSet(loops)

LoopsOf(k) == {l \in LoopSet : l.owner = k}

Replace(bag, old, new) == (bag (-) SetToBag({old})) (+) SetToBag({new})


\* the task dict built by queue_download for the n-th submission, by user uid
NewTask(uid, n) ==
    [chat_id |-> uid,
     url |-> UrlOf(n),
     format_choice |-> FormatChoiceOf(n),
     quality_id |-> QualityIdOf(n),
     custom_filename |-> CustomFilenameOf(n)]

\* ------------------------------------------------ download_media: its state
\* time.time() when the process starts: any value larger than the throttle
START_CLOCK == 10

\* time.time() when the machine booted
BOOT_CLOCK == 6

\* time.monotonic(): the reference point of its value is undefined; it is the
\* epoch of time.time() or the boot of the machine
MonotonicOrigins == {0, BOOT_CLOCK}

monotonic(time, origin) == time - origin

\* lines 91-98, the seconds that format_elapsed prints: int(seconds), from half seconds
format_elapsed(ticks) == IF ticks >= 0 THEN ticks \div 2 ELSE -((-ticks) \div 2)

\* no download_media call is followed
NoPipe == [pc |-> "idle"]

\* ProgressManager.__init__, lines 129-135
NewProgressManager == [message |-> FALSE, last_update_text |-> "", last_update_time |-> 0]

\* nothing was received yet: documents, result links, failure messages, and the
\* status updates (number sent, time of the last one, whether it was the terminal one)
NoChat == [documents |-> 0, links |-> 0, failures |-> 0,
           updates |-> 0, last_at |-> 0, last_terminal |-> FALSE,
           elapsed |-> [shown |-> 0, at |-> 0, any |-> FALSE]]

PipeIdle ==
    /\ pipe = NoPipe
    /\ progress = NewProgressManager
    /\ disk = {}
    /\ chat = NoChat
    /\ now = START_CLOCK

\* ------------------------------------------------------------- initial state
\* the state after main() on a machine without queue.json
Init ==
    /\ DOWNLOAD_QUEUE = EmptyDict
    /\ QUEUE_FILE = NoFile
    /\ DOWNLOAD_SEMAPHORE = NewSemaphore
    /\ loops = EmptyBag
    /\ handler = Idle
    /\ submitted = 0
    /\ users = 0
    /\ admitted = {}
    /\ cleared = {}
    /\ PipeIdle

\* ------------------------------------------------------------- queue_download
\* lines 305-318: build the task, create the list, append, save; then the
\* handler awaits the acknowledgement message
queue_download_write(uid, task, io) ==
    /\ UNCHANGED pipeVars
    /\ handler = Idle
    /\ LET k == str(uid)
           queue == SetItem(DOWNLOAD_QUEUE, k, Append(Get(DOWNLOAD_QUEUE, k), task))
       IN /\ DOWNLOAD_QUEUE' = queue
          /\ QUEUE_FILE' = save_queue_to_disk_io(queue, QUEUE_FILE, io)
          /\ handler' = [op |-> "queue_download", user |-> k]
    /\ submitted' = submitted + 1
    /\ users' = IF uid > users THEN uid ELSE users
    /\ UNCHANGED <<DOWNLOAD_SEMAPHORE, loops, admitted, cleared>>

\* queue_download on a disk that takes the write
queue_download_task(uid, task) == queue_download_write(uid, task, "written")

\* a submission whose conversation chose one of the two buttons
queue_download_append(uid) == queue_download_task(uid, NewTask(uid, submitted + 1))

\* the callback data that CallbackQueryHandler(pattern=r"^format\|") lets
\* through, as the list data.split("|"): the two buttons of handle_link, and
\* data that a client made up
FormatCallbackData == {<<"format", "mp4">>, <<"format", "mp3">>, <<"format", "avi">>}

\* line 409: context.user_data["format_choice"] = query.data.split("|")[1]
choose_format_callback(data) == data[2]

\* lines 411-412 and 456: the quality that the conversation stores
quality_id_for(format_choice) ==
    IF format_choice = "mp3" THEN PyStr("bestaudio") ELSE PyStr("137")

\* lines 405-475 and 303-318: the conversation ends in queue_download with
\* the format that choose_format_callback stored; nothing tests the format
queue_download_chosen(uid, data) ==
    queue_download_task(uid,
        [NewTask(uid, submitted + 1) EXCEPT
            !.format_choice = choose_format_callback(data),
            !.quality_id = quality_id_for(choose_format_callback(data))])

\* line 333: "if the queue processor for this user is not running"
ShouldStartLoop(queue, k) == Len(Get(queue, k)) = 1

\* lines 320-334: the acknowledgement is sent (it may raise TelegramError, which
\* ends the handler); then the loop is started when the list holds one task
queue_download_finish(ack) ==
    /\ UNCHANGED pipeVars
    /\ handler.op = "queue_download"
    /\ loops' = IF ack = "sent" /\ ShouldStartLoop(DOWNLOAD_QUEUE, handler.user)
                THEN loops (+) SetToBag({Loop(handler.user, "while", NoTask)})
                ELSE loops
    /\ handler' = Idle
    /\ UNCHANGED <<DOWNLOAD_QUEUE, QUEUE_FILE, DOWNLOAD_SEMAPHORE, submitted,
                   users, admitted, cleared>>

\* ------------------------------------------------------------- cancel_handler
\* history: the loops of user k that wait for a permit are marked
MarkCancelled(bag, k) ==
    LET mark(l) == IF l.owner = k /\ Waiting(l) THEN [l EXCEPT !.cancelled = TRUE] ELSE l
    IN [m \in {mark(l) : l \in BagToSet(bag)} |->
          BagCardinality(Restrict(bag, {l \in BagToSet(bag) : mark(l) = m}))]

\* faulty variant: every list of the dict is cleared
CancelQueueAll(queue, k) == [x \in DOMAIN queue |-> <<>>]

\* lines 481-483: what cancel_handler leaves in DOWNLOAD_QUEUE
CancelQueue(queue, k) ==
    IF Get(queue, k) # <<>> THEN [queue EXCEPT ![k] = <<>>] ELSE queue

\* lines 478-494: clear the list and save when the list is non-empty; the
\* replies that follow change nothing of the queue, the file or the coroutines
cancel_handler(uid) ==
    /\ UNCHANGED pipeVars
    /\ handler = Idle
    /\ LET k == str(uid)
       IN /\ DOWNLOAD_QUEUE' = CancelQueue(DOWNLOAD_QUEUE, k)
          /\ QUEUE_FILE' = IF Get(DOWNLOAD_QUEUE, k) # <<>>
                           THEN save_queue_to_disk(DOWNLOAD_QUEUE')
                           ELSE QUEUE_FILE
          /\ loops' = MarkCancelled(loops, k)
          /\ cleared' = cleared \cup {t.url : t \in Range(Get(DOWNLOAD_QUEUE, k))}
    /\ UNCHANGED <<DOWNLOAD_SEMAPHORE, handler, submitted, users, admitted>>

\* ------------------------------------------------------------- download_media
\* lines 498-613: the pipeline catches every Exception of its try block; an error
\* of the cleanup in its finally clause (final_path.unlink) leaves the coroutine
DownloadOutcomes == {"returned", "raised"}

\* ------------------------------------------------------------- process_queue_for_user
\* the woken waiter of future fut has run: nobody is behind it any more
Resumed(bag, fut) ==
    LET ran(l) == [l EXCEPT !.behind = @ \ {fut}]
    IN [m \in {ran(l) : l \in BagToSet(bag)} |->
          BagCardinality(Restrict(bag, {l \in BagToSet(bag) : ran(l) = m}))]

\* line 293, entering "async with DOWNLOAD_SEMAPHORE" with the popped task:
\* the loop takes a permit and enters download_media, or waits on a new future
AcquireStep(l, task) ==
    IF SemCanEnter(DOWNLOAD_SEMAPHORE)
    THEN /\ DOWNLOAD_SEMAPHORE' = SemEnter(DOWNLOAD_SEMAPHORE)
         /\ loops' = Resumed(Replace(loops, l, [l EXCEPT !.pc = "download", !.task = task,
                                                          !.behind = {}]), task.url)
         /\ admitted' = admitted \cup {<<l.owner, task.url>>}
    ELSE /\ DOWNLOAD_SEMAPHORE' = SemWait(DOWNLOAD_SEMAPHORE, task.url)
         /\ loops' = Resumed(Replace(loops, l, [l EXCEPT !.pc = "acquire", !.task = task,
                                                          !.behind = {}]), task.url)
         /\ admitted' = admitted

\* line 288: the while condition
QueueHasTask(queue, k) == Get(queue, k) # <<>>

\* faulty variant: the first task is read but stays in the list
PopFirstKept(queue, k) == queue

\* line 289: the list after pop(0)
PopFirst(queue, k) == [queue EXCEPT ![k] = Tail(@)]

\* lines 288-293, at the while test (pc "while": the coroutine was just created,
\* or its sleep of line 301 ended): pop(0), save, and the entry into the semaphore
process_queue_pop_write(l, io) ==
    /\ UNCHANGED pipeVars
    /\ l \in LoopSet
    /\ l.pc = "while"
    /\ MayRun(l)
    /\ QueueHasTask(DOWNLOAD_QUEUE, l.owner)
    /\ LET task == Head(DOWNLOAD_QUEUE[l.owner])
       IN /\ DOWNLOAD_QUEUE' = PopFirst(DOWNLOAD_QUEUE, l.owner)
          /\ QUEUE_FILE' = save_queue_to_disk_io(DOWNLOAD_QUEUE', QUEUE_FILE, io)
          /\ AcquireStep(l, task)
    /\ UNCHANGED <<handler, submitted, users, cleared>>

\* the same step on a disk that takes the write
process_queue_pop(l) == process_queue_pop_write(l, "written")

\* line 288, the while test fails: the coroutine returns
process_queue_exit(l) ==
    /\ UNCHANGED pipeVars
    /\ l \in LoopSet
    /\ l.pc = "while"
    /\ MayRun(l)
    /\ ~QueueHasTask(DOWNLOAD_QUEUE, l.owner)
    /\ loops' = loops (-) SetToBag({l})
    /\ UNCHANGED <<DOWNLOAD_QUEUE, QUEUE_FILE, DOWNLOAD_SEMAPHORE, handler,
                   submitted, users, admitted, cleared>>

\* line 293, a waiter whose future was set done resumes in acquire()
process_queue_resume(l) ==
    /\ UNCHANGED pipeVars
    /\ l \in LoopSet
    /\ l.pc = "woken"
    /\ AcquireStep(l, l.task)
    /\ UNCHANGED <<DOWNLOAD_QUEUE, QUEUE_FILE, handler, submitted, users, cleared>>

\* the loops after the release of the semaphore by loop l, which goes on as l2:
\* the loop that waits on the first future is scheduled to resume
AfterRelease(l, pc, task) ==
    LET sem == DOWNLOAD_SEMAPHORE
    IN IF sem.waiters = <<>>
       THEN Replace(loops, l, LoopAfter(l.owner, pc, task, WokenFutures(loops)))
       ELSE LET w == CHOOSE x \in LoopSet :
                         x.pc = "acquire" /\ x.task.url = Head(sem.waiters)
                woke == Replace(loops, w, [w EXCEPT !.pc = "woken"])
            IN Replace(woke, l, LoopAfter(l.owner, pc, task, WokenFutures(woke)))

\* lines 293-301: download_media ends, the semaphore is released; the loop goes
\* to its sleep, or to the notification of its except clause
process_queue_download_done(l, outcome) ==
    /\ UNCHANGED pipeVars
    /\ l \in LoopSet
    /\ l.pc = "download"
    /\ DOWNLOAD_SEMAPHORE' = SemRelease(DOWNLOAD_SEMAPHORE)
    /\ loops' = IF outcome = "returned"
                THEN AfterRelease(l, "while", NoTask)
                ELSE AfterRelease(l, "notify", l.task)
    /\ UNCHANGED <<DOWNLOAD_QUEUE, QUEUE_FILE, handler, submitted, users,
                   admitted, cleared>>

\* line 298: the loops after send_message of the except clause; when it raises
\* TelegramError the exception leaves the coroutine
AfterNotify(bag, l, sent) ==
    IF sent = "sent"
    THEN Replace(bag, l, LoopAfter(l.owner, "while", NoTask, WokenFutures(bag)))
    ELSE bag (-) SetToBag({l})

process_queue_notify_done(l, sent) ==
    /\ UNCHANGED pipeVars
    /\ l \in LoopSet
    /\ l.pc = "notify"
    /\ MayRun(l)
    /\ loops' = AfterNotify(loops, l, sent)
    /\ UNCHANGED <<DOWNLOAD_QUEUE, QUEUE_FILE, DOWNLOAD_SEMAPHORE, handler,
                   submitted, users, admitted, cleared>>

\* ------------------------------------------------------------- restart
\* lines 647-653: one coroutine for every user whose list is non-empty
on_startup(queue) ==
    SetToBag({Loop(k, "while", NoTask) : k \in {x \in DOMAIN queue : queue[x] # <<>>}})

\* the process dies at any point (everything in memory is lost) and main() runs
\* again: load_queue_from_disk (line 624), a new semaphore (line 67), on_startup
Restart ==
    /\ DOWNLOAD_QUEUE' = load_queue_from_disk(QUEUE_FILE, EmptyDict)
    /\ DOWNLOAD_SEMAPHORE' = NewSemaphore
    /\ loops' = on_startup(DOWNLOAD_QUEUE')
    /\ handler' = Idle
    /\ UNCHANGED <<QUEUE_FILE, submitted, users, admitted, cleared>>
    /\ UNCHANGED pipeVars

\* ------------------------------------------------------------- specification
\* users are numbered in the order of their first submission
KnownUsers == 1..users
NextUsers == {uid \in UserIds : uid <= users + 1}

SendOutcomes == {"sent", "raised"}

Next ==
    \/ \E uid \in NextUsers : submitted < MaxTasks /\ queue_download_append(uid)
    \/ \E ack \in SendOutcomes : queue_download_finish(ack)
    \/ \E uid \in KnownUsers : cancel_handler(uid)
    \/ \E l \in LoopSet : process_queue_pop(l)
    \/ \E l \in LoopSet : process_queue_exit(l)
    \/ \E l \in LoopSet : process_queue_resume(l)
    \/ \E l \in LoopSet, outcome \in DownloadOutcomes : process_queue_download_done(l, outcome)
    \/ \E l \in LoopSet, sent \in SendOutcomes : process_queue_notify_done(l, sent)
    \/ Restart

Spec == Init /\ [][Next]_vars

\* one user who submits while earlier tasks still run: every acknowledgement is
\* sent, every download returns, nobody cancels and the process keeps running
NextBusy ==
    \/ submitted < MaxBusyTasks /\ queue_download_append(1)
    \/ queue_download_finish("sent")
    \/ \E l \in LoopSet : process_queue_pop(l)
    \/ \E l \in LoopSet : process_queue_exit(l)
    \/ \E l \in LoopSet : process_queue_resume(l)
    \/ \E l \in LoopSet : process_queue_download_done(l, "returned")

BusySpec == Init /\ [][NextBusy]_vars

\* the conversations with every callback data, and the processing loops
NextSubmit ==
    \/ \E uid \in NextUsers, data \in FormatCallbackData :
          submitted < MaxTasks /\ queue_download_chosen(uid, data)
    \/ \E ack \in SendOutcomes : queue_download_finish(ack)
    \/ \E l \in LoopSet : process_queue_pop(l)
    \/ \E l \in LoopSet : process_queue_exit(l)
    \/ \E l \in LoopSet : process_queue_resume(l)
    \/ \E l \in LoopSet, outcome \in DownloadOutcomes : process_queue_download_done(l, outcome)
    \/ \E l \in LoopSet, sent \in SendOutcomes : process_queue_notify_done(l, sent)

SubmitSpec == Init /\ [][NextSubmit]_vars

\* submissions and processing loops on a disk whose writes can fail
NextIo ==
    \/ \E uid \in NextUsers, io \in WriteOutcomes :
          submitted < MaxTasks /\ queue_download_write(uid, NewTask(uid, submitted + 1), io)
    \/ \E ack \in SendOutcomes : queue_download_finish(ack)
    \/ \E l \in LoopSet, io \in WriteOutcomes : process_queue_pop_write(l, io)
    \/ \E l \in LoopSet : process_queue_exit(l)
    \/ \E l \in LoopSet : process_queue_resume(l)
    \/ \E l \in LoopSet, outcome \in DownloadOutcomes : process_queue_download_done(l, outcome)
    \/ \E l \in LoopSet, sent \in SendOutcomes : process_queue_notify_done(l, sent)

IoSpec == Init /\ [][NextIo]_vars

\* a restart: queue.json holds n1 tasks of user 1 and n2 tasks of user 2 that were
\* queued when the process died; main() loads them and on_startup starts the loops
SnapshotQueue(n1, n2) ==
    LET q1 == [i \in 1..n1 |-> NewTask(1, i)]
        q2 == [i \in 1..n2 |-> NewTask(2, n1 + i)]
    IN IF n2 = 0 THEN SetItem(EmptyDict, str(1), q1)
       ELSE SetItem(SetItem(EmptyDict, str(1), q1), str(2), q2)

ResumeInit ==
    \E n1 \in 1..MaxTasks, n2 \in 0..MaxTasks :
        /\ n1 + n2 <= MaxTasks
        /\ QUEUE_FILE = save_queue_to_disk(SnapshotQueue(n1, n2))
        /\ DOWNLOAD_QUEUE = load_queue_from_disk(QUEUE_FILE, EmptyDict)
        /\ DOWNLOAD_SEMAPHORE = NewSemaphore
        /\ loops = on_startup(DOWNLOAD_QUEUE)
        /\ handler = Idle
        /\ submitted = n1 + n2
        /\ users = IF n2 = 0 THEN 1 ELSE 2
        /\ admitted = {}
        /\ cleared = {}
        /\ PipeIdle

\* after the restart only the processing loops run
NextResume ==
    \/ \E l \in LoopSet : process_queue_pop(l)
    \/ \E l \in LoopSet : process_queue_exit(l)
    \/ \E l \in LoopSet, outcome \in DownloadOutcomes : process_queue_download_done(l, outcome)
    \/ \E l \in LoopSet, sent \in SendOutcomes : process_queue_notify_done(l, sent)

\* the event loop runs every coroutine that is ready, and every await of the
\* network or of a timer ends
ResumeSpec == ResumeInit /\ [][NextResume]_vars /\ WF_vars(NextResume)

\* ------------------------------------------------------------ ProgressManager
EditOutcomes == {"ok", "BadRequest", "TelegramError"}

\* lines 137-144: the message is kept only when send_message returned
send_initial_message(pm, sent) ==
    IF sent = "sent"
    THEN [pm EXCEPT !.message = TRUE, !.last_update_text = "initial"]
    ELSE pm

\* line 150: the test of _update_message_threadsafe
ThrottleAllows(pm, text, time) ==
    /\ pm.message
    /\ text # pm.last_update_text
    /\ time - pm.last_update_time > THROTTLE_TICKS

\* lines 151-152 of _update_message_threadsafe
update_message_threadsafe(pm, text, time) ==
    [pm EXCEPT !.last_update_text = text, !.last_update_time = time]

\* line 160: the test of update
UpdateEdits(pm, text) == pm.message /\ text # pm.last_update_text

\* lines 158-167: update; BadRequest and TelegramError are swallowed, and the
\* time of the last update is neither read nor written
update(pm, text, edit) ==
    IF UpdateEdits(pm, text) /\ edit = "ok"
    THEN [pm EXCEPT !.last_update_text = text]
    ELSE pm

\* lines 169-176
delete(pm) == [pm EXCEPT !.message = FALSE]

\* history: a status update reached the user
Updated(c, time, terminal) ==
    [c EXCEPT !.updates = @ + 1, !.last_at = time, !.last_terminal = terminal]

\* history of "await progress.update(text)"
ChatAfterUpdate(text, edit, terminal) ==
    IF UpdateEdits(progress, text) /\ edit = "ok" THEN Updated(chat, now, terminal) ELSE chat

\* ------------------------------------------------------------- download_media
Formats == {"mp4", "mp3"}
Exts == {"webm", "mp4", "mp3"}
FileSizes == {MIN_FILE_BYTES - 1, MIN_FILE_BYTES, TELEGRAM_SAFE_MAX_BYTES, TELEGRAM_SAFE_MAX_BYTES + 1}
HookTexts == {"downloading 10%", "downloading 90%", "processing"}
FetchResults == {"DownloadError", "Exception", "None", "no filename", "info"}
Stages == <<"fetch", "validate", "deliver">>

\* lines 500-506: the call begins, the initial status message is sent or not,
\* start_time is read from the monotonic clock (started_at: the same instant
\* on the clock of time.time(), history)
download_media_begin(format_choice, sent, origin) ==
    /\ pipe.pc = "idle"
    /\ progress' = send_initial_message(NewProgressManager, sent)
    /\ chat' = IF sent = "sent" THEN Updated(NoChat, now, FALSE) ELSE NoChat
    /\ pipe' = [pc |-> "fetch", format_choice |-> format_choice, final_path |-> "None",
                file_size |-> 0, direct |-> "not tried", invoked |-> <<>>, results |-> <<>>,
                link |-> "None", error |-> "None", stages |-> <<>>,
                start_time |-> monotonic(now, origin), started_at |-> now]
    /\ UNCHANGED <<disk, now>>
    /\ UNCHANGED queueVars

\* time passes while yt-dlp downloads (the later stages are followed at their
\* fastest: no tick between their awaits)
Tick ==
    /\ pipe.pc = "fetch"
    /\ now < START_CLOCK + MaxTicks
    /\ now' = now + 1
    /\ UNCHANGED <<pipe, progress, disk, chat>>
    /\ UNCHANGED queueVars

\* line 189: the elapsed time of a "downloading" text
ElapsedShown(start_time, time) == format_elapsed(time - start_time)

\* lines 180-191 and 146-156: a progress hook called by yt-dlp in its thread;
\* the text of the status "downloading" carries the elapsed time
progress_hook(text) ==
    /\ pipe.pc = "fetch"
    /\ ThrottleAllows(progress, text, now)
    /\ progress' = update_message_threadsafe(progress, text, now)
    /\ chat' = IF text = "processing"
               THEN Updated(chat, now, FALSE)
               ELSE [Updated(chat, now, FALSE) EXCEPT
                        !.elapsed = [shown |-> ElapsedShown(pipe.start_time, now),
                                     at |-> now, any |-> TRUE]]
    /\ UNCHANGED <<pipe, disk, now>>
    /\ UNCHANGED queueVars

\* lines 552-567: the path that is validated, delivered and cleaned up
FinalPath(format_choice, temp_path, files) ==
    IF format_choice \notin files /\ temp_path \in files
    THEN IF "mp4" \in files THEN "mp4"
         ELSE IF "mp3" \in files THEN "mp3"
         ELSE format_choice
    ELSE format_choice

\* the except clause that a failure of a stage reaches: lines 595 and 602
Raise(p, error) == [p EXCEPT !.pc = "except", !.error = error]

\* lines 539-567: extract_info ends.  result is what it returned or raised,
\* temp_path the extension in prepare_filename's answer, files what yt-dlp and
\* ffmpeg left in DOWNLOAD_DIR
download_media_fetch(result, temp_path, files) ==
    /\ pipe.pc = "fetch"
    /\ disk' = files
    /\ LET p == [pipe EXCEPT !.stages = Append(@, "fetch")]
       IN pipe' = CASE result = "DownloadError" -> Raise(p, "DownloadError")
                    [] result = "Exception" -> Raise(p, "Exception")
                    [] result = "None" -> Raise(p, "ValueError")
                    [] result = "no filename" -> Raise(p, "FileNotFoundError")
                    [] OTHER -> [p EXCEPT !.pc = "validate",
                                          !.final_path = FinalPath(pipe.format_choice, temp_path, files)]
    /\ UNCHANGED <<progress, chat, now>>
    /\ UNCHANGED queueVars

\* faulty variant: the size test of line 577 dropped
IsPlausibleAny(size) == TRUE

\* line 577
IsPlausible(size) == size >= MIN_FILE_BYTES

\* lines 571-578: the file must exist (also after the 2 s sleep) and hold 1 KB
download_media_validate(size) ==
    /\ pipe.pc = "validate"
    /\ LET p == [pipe EXCEPT !.stages = Append(@, "validate")]
       IN pipe' = IF pipe.final_path \notin disk THEN Raise(p, "FileNotFoundError")
                  ELSE IF ~IsPlausible(size) THEN Raise([p EXCEPT !.file_size = size], "ValueError")
                  ELSE [p EXCEPT !.pc = "deliver", !.file_size = size]
    /\ UNCHANGED <<progress, disk, chat, now>>
    /\ UNCHANGED queueVars

\* faulty variant: a file of exactly the limit goes to the external hosts
UseDirectChannelBelow(size) == size < TELEGRAM_SAFE_MAX_BYTES

\* line 581
UseDirectChannel(size) == size <= TELEGRAM_SAFE_MAX_BYTES

\* lines 581-582 and 585-586: the channel is chosen and the status is updated
download_media_deliver(edit) ==
    /\ pipe.pc = "deliver"
    /\ LET direct == UseDirectChannel(pipe.file_size)
           text == IF direct THEN "uploading to Telegram" ELSE "using external host"
       IN /\ progress' = update(progress, text, edit)
          /\ chat' = ChatAfterUpdate(text, edit, FALSE)
          /\ pipe' = [pipe EXCEPT !.pc = IF direct THEN "send_document" ELSE "upload_file",
                                  !.stages = Append(@, "deliver")]
    /\ UNCHANGED <<disk, now>>
    /\ UNCHANGED queueVars

\* lines 583-584: bot.send_document returns or raises a TelegramError, which
\* only "except Exception" (line 602) catches
download_media_send_document(sent) ==
    /\ pipe.pc = "send_document"
    /\ IF sent = "sent"
       THEN /\ pipe' = [pipe EXCEPT !.pc = "delete", !.direct = "ok"]
            /\ chat' = [chat EXCEPT !.documents = @ + 1]
       ELSE /\ pipe' = Raise([pipe EXCEPT !.direct = "failed"], "TelegramError")
            /\ chat' = chat
    /\ UNCHANGED <<progress, disk, now>>
    /\ UNCHANGED queueVars

\* lines 219-223
uploaders == <<"GoFile", "File.io", "Transfer.sh">>

UploadResults == {"link", "None", "raised"}

\* faulty variant: the list is walked from its end
NextUploaderReversed(invoked) == uploaders[Len(uploaders) - Len(invoked)]

\* line 224: the for loop takes the services in the order of the list
NextUploader(invoked) == uploaders[Len(invoked) + 1]

\* faulty variant: the loop gives up after two services
ExhaustedEarly(invoked) == Len(invoked) >= 2

\* lines 224 and 237-238: the for loop ends after the last service
Exhausted(invoked) == Len(invoked) = Len(uploaders)

\* lines 224-235: one turn of the loop of upload_file: the status is updated,
\* the service is called; a link is returned at once, None or an exception
\* lead to the next service, and after the last one None is returned
upload_file_try(edit, result) ==
    /\ pipe.pc = "upload_file"
    /\ LET name == NextUploader(pipe.invoked)
           text == name
           invoked == Append(pipe.invoked, name)
       IN /\ progress' = update(progress, text, edit)
          /\ chat' = ChatAfterUpdate(text, edit, FALSE)
          /\ pipe' = [pipe EXCEPT !.invoked = invoked,
                                  !.results = Append(@, result),
                                  !.link = IF result = "link" THEN name ELSE "None",
                                  !.pc = IF result = "link" \/ Exhausted(invoked)
                                         THEN "send_link" ELSE "upload_file"]
    /\ UNCHANGED <<disk, now>>
    /\ UNCHANGED queueVars

\* lines 588-591: the link, or the failure of all services, is sent
download_media_send_link(sent) ==
    /\ pipe.pc = "send_link"
    /\ IF sent = "sent"
       THEN /\ pipe' = [pipe EXCEPT !.pc = "delete"]
            /\ chat' = IF pipe.link # "None"
                       THEN [chat EXCEPT !.links = @ + 1]
                       ELSE [chat EXCEPT !.failures = @ + 1]
       ELSE /\ pipe' = Raise(pipe, "TelegramError")
            /\ chat' = chat
    /\ UNCHANGED <<progress, disk, now>>
    /\ UNCHANGED queueVars

\* line 593
download_media_delete ==
    /\ pipe.pc = "delete"
    /\ progress' = delete(progress)
    /\ pipe' = [pipe EXCEPT !.pc = "finally"]
    /\ UNCHANGED <<disk, chat, now>>
    /\ UNCHANGED queueVars

\* lines 595-608: the failure is reported by editing the status message;
\* update swallows every TelegramError, so send_message (601, 608) never runs
download_media_except(edit) ==
    /\ pipe.pc = "except"
    /\ LET text == IF pipe.error \in {"DownloadError", "ValueError", "FileNotFoundError"}
                   THEN "Download failed" ELSE "unexpected critical error"
       IN /\ progress' = update(progress, text, edit)
          /\ chat' = IF UpdateEdits(progress, text) /\ edit = "ok"
                     THEN [Updated(chat, now, TRUE) EXCEPT !.failures = @ + 1]
                     ELSE chat
    /\ pipe' = [pipe EXCEPT !.pc = "finally"]
    /\ UNCHANGED <<disk, now>>
    /\ UNCHANGED queueVars

UnlinkOutcomes == {"removed", "raised"}

\* lines 609-613: final_path is removed when it is set and exists; an OSError
\* of unlink leaves download_media
download_media_finally(unlink) ==
    /\ pipe.pc = "finally"
    /\ IF pipe.final_path # "None" /\ pipe.final_path \in disk
       THEN IF unlink = "removed"
            THEN /\ disk' = disk \ {pipe.final_path}
                 /\ pipe' = [pipe EXCEPT !.pc = "returned"]
            ELSE /\ disk' = disk
                 /\ pipe' = [pipe EXCEPT !.pc = "raised"]
       ELSE /\ disk' = disk
            /\ pipe' = [pipe EXCEPT !.pc = "returned"]
    /\ UNCHANGED <<progress, chat, now>>
    /\ UNCHANGED queueVars

\* lines 296-298: the caller reports an exception that left download_media
process_queue_report(sent) ==
    /\ pipe.pc = "raised"
    /\ pipe' = [pipe EXCEPT !.pc = IF sent = "sent" THEN "reported" ELSE "loop died"]
    /\ chat' = IF sent = "sent" THEN [chat EXCEPT !.failures = @ + 1] ELSE chat
    /\ UNCHANGED <<progress, disk, now>>
    /\ UNCHANGED queueVars

\* one download_media call, from its first line to the return to its caller
NextPipeline ==
    \/ \E f \in Formats, sent \in SendOutcomes, origin \in MonotonicOrigins :
          download_media_begin(f, sent, origin)
    \/ Tick
    \/ \E text \in HookTexts : progress_hook(text)
    \/ \E result \in FetchResults, temp_path \in Exts, files \in SUBSET Exts :
          /\ result # "info" => files \subseteq {"webm"}
          /\ download_media_fetch(result, temp_path, files)
    \/ \E size \in FileSizes : download_media_validate(size)
    \/ \E edit \in EditOutcomes : download_media_deliver(edit)
    \/ \E sent \in SendOutcomes : download_media_send_document(sent)
    \/ \E edit \in EditOutcomes, result \in UploadResults : upload_file_try(edit, result)
    \/ \E sent \in SendOutcomes : download_media_send_link(sent)
    \/ download_media_delete
    \/ \E edit \in EditOutcomes : download_media_except(edit)
    \/ \E unlink \in UnlinkOutcomes : download_media_finally(unlink)
    \/ \E sent \in SendOutcomes : process_queue_report(sent)

PipelineSpec == Init /\ [][NextPipeline]_vars

\* the call is over for the user: it returned, or its caller handled the exception
Finished == pipe.pc \in {"returned", "reported", "loop died"}

\* ------------------------------------------------------------- derived state
Downloading == {l \in LoopSet : l.pc = "download"}

\* number of coroutines between the acquisition and the release of a permit
NumDownloading == BagCardinality(Restrict(loops, Downloading))

NumDownloadingOf(k) == BagCardinality(Restrict(loops, {l \in Downloading : l.owner = k}))

Keys == {str(uid) : uid \in UserIds}

QueuedTasks(k) == Range(Get(DOWNLOAD_QUEUE, k))

\* ------------------------------------------------------------- C1
\* C1: in every reachable state the number of tasks that execute the pipeline
\* (between slot acquisition and slot release), over all owners, is at most
\* GLOBAL_MAX_CONCURRENT_DOWNLOADS.
C1_PoolCapacity == NumDownloading <= GLOBAL_MAX_CONCURRENT_DOWNLOADS

\* the pool is full and a further task waits for a permit
C1_Witness ==
    /\ NumDownloading = GLOBAL_MAX_CONCURRENT_DOWNLOADS
    /\ \E l \in LoopSet : l.pc = "acquire"

\* ------------------------------------------------------------- C2
\* C2: for every owner at most one task of that owner executes the pipeline at
\* any time.
C2_OneTaskPerOwner == \A k \in Keys : NumDownloadingOf(k) <= 1

C4_CancelledNeverAdmitted ==
    /\ \A a \in admitted : a[2] \notin cleared
    /\ \A l \in Downloading : ~l.cancelled

\* ------------------------------------------------------------- C5
AdmittedLoops == {l \in LoopSet : l.pc \in {"download", "notify"}}

\* C5: cancel_handler of one owner leaves the lists of all other owners, the
\* tasks admitted into the pool (of any owner) and the semaphore unchanged.
C5_CancelFrame ==
    [][\A uid \in UserIds :
          cancel_handler(uid) =>
              /\ DOMAIN DOWNLOAD_QUEUE' = DOMAIN DOWNLOAD_QUEUE
              /\ \A k \in DOMAIN DOWNLOAD_QUEUE :
                     k # str(uid) => DOWNLOAD_QUEUE'[k] = DOWNLOAD_QUEUE[k]
              /\ Restrict(loops', AdmittedLoops') = Restrict(loops, AdmittedLoops)
              /\ DOWNLOAD_SEMAPHORE' = DOWNLOAD_SEMAPHORE
              /\ admitted' = admitted]_vars

\* an owner's list was cleared while a task of that owner is in the pipeline and
\* another owner has a queued task
C5_Witness ==
    \E k \in Keys, k2 \in Keys :
        /\ k # k2
        /\ \E a \in admitted : a[1] = k /\ \E u \in cleared : UrlIndex(u) > UrlIndex(a[2])
        /\ \E l \in Downloading : l.owner = k
        /\ QueuedTasks(k) = {}
        /\ QueuedTasks(k2) # {}

\* ------------------------------------------------------------- C6
\* the task specs that queue.json holds for user k
PersistedTasks(k) ==
    IF QUEUE_FILE.exists /\ k \in DOMAIN QUEUE_FILE.text
    THEN Range(QUEUE_FILE.text[k])
    ELSE {}

\* C6: every task that was submitted, not cancelled and not yet admitted into
\* the pool (in the list, or waiting for a free slot) is in the persisted
\* snapshot.
C6_PendingIsPersisted ==
    \A k \in Keys :
        /\ \A t \in QueuedTasks(k) : JsonOfTask(t) \in PersistedTasks(k)
        /\ \A l \in LoopsOf(k) :
               (Waiting(l) /\ ~l.cancelled) => JsonOfTask(l.task) \in PersistedTasks(k)

\* ------------------------------------------------------------- C7
\* C7: save_queue_to_disk followed by load_queue_from_disk yields the same owners
\* and, for each owner, the same ordered list of task specs.
C7_RoundTrip ==
    load_queue_from_disk(save_queue_to_disk(DOWNLOAD_QUEUE), EmptyDict) = DOWNLOAD_QUEUE

\* two owners with queued tasks, a list of two tasks, a task without and a task
\* with a custom filename, after a task was dequeued
C7_Witness ==
    /\ admitted # {}
    /\ Cardinality({k \in DOMAIN DOWNLOAD_QUEUE : DOWNLOAD_QUEUE[k] # <<>>}) >= 2
    /\ \E k \in DOMAIN DOWNLOAD_QUEUE : Len(DOWNLOAD_QUEUE[k]) >= 2
    /\ \E k \in DOMAIN DOWNLOAD_QUEUE : \E t \in Range(DOWNLOAD_QUEUE[k]) :
           t.custom_filename = PyNone
    /\ \E k \in DOMAIN DOWNLOAD_QUEUE : \E t \in Range(DOWNLOAD_QUEUE[k]) :
           t.custom_filename # PyNone

\* ------------------------------------------------------------- C9
\* C9: whenever no queue_download is in progress, a non-empty list of an owner
\* has a live processing loop of that owner.
C9_QueuedHasLoop ==
    handler = Idle =>
        \A k \in Keys : QueueHasTask(DOWNLOAD_QUEUE, k) => LoopsOf(k) # {}

\* ------------------------------------------------------------- C10
\* C10: a processing loop ends only when its owner's list is empty.
C10_LoopEndsOnlyOnEmptyQueue ==
    [][\A l \in LoopSet, sent \in SendOutcomes :
          (process_queue_exit(l) \/ process_queue_notify_done(l, sent)) =>
              (BagCardinality(loops') < BagCardinality(loops) =>
                   ~QueueHasTask(DOWNLOAD_QUEUE, l.owner))]_vars

\* ------------------------------------------------------------- C8
NumLoopsOf(k) == BagCardinality(Restrict(loops, LoopsOf(k)))

AllSubmittedAdmitted == \A i \in 1..submitted : \E a \in admitted : a[2] = UrlOf(i)

\* C8: at startup every owner list is rebuilt from the snapshot, exactly one
\* processing loop is started for each owner with a non-empty list and none for
\* the others, and every restored task is eventually executed.
C8_ResumeRunsEveryTask ==
    /\ DOWNLOAD_QUEUE = JsonLoad(QUEUE_FILE.text)
    /\ \A k \in Keys : NumLoopsOf(k) = IF QueueHasTask(DOWNLOAD_QUEUE, k) THEN 1 ELSE 0
    /\ <>AllSubmittedAdmitted

\* ------------------------------------------------------------- C11
TerminalReports == chat.documents + chat.links + chat.failures

\* C11: every task that entered download_media has given the user exactly one
\* terminal report (the document, the link or a failure message) when the call
\* is over, also when the status message could not be sent or edited.
C11_ExactlyOneReport == Finished => TerminalReports = 1

\* ------------------------------------------------------------- C12
Started == pipe.pc # "idle"

LastResult == pipe.results[Len(pipe.results)]

\* upload_file has returned to download_media
UploadReturned == Started /\ pipe.invoked # <<>> /\ pipe.pc # "upload_file"

\* C12: upload_file calls the services in the order of its list, a service is
\* called only after all the services before it failed (returned None or
\* raised), and the link returned is the link of the first service that succeeded.
C12_FirstLinkInOrder ==
    Started =>
      /\ Len(pipe.invoked) <= Len(uploaders)
      /\ \A i \in 1..Len(pipe.invoked) : pipe.invoked[i] = uploaders[i]
      /\ \A i \in 1..(Len(pipe.invoked) - 1) : pipe.results[i] # "link"
      /\ UploadReturned /\ LastResult = "link" => pipe.link = pipe.invoked[Len(pipe.invoked)]
      /\ pipe.link # "None" => UploadReturned /\ LastResult = "link"

\* [A fails, B fails, C succeeds]: C's link is returned and reaches the user
C12_Witness ==
    /\ pipe.pc = "returned"
    /\ pipe.results = <<"None", "raised", "link">>
    /\ pipe.link = "Transfer.sh"
    /\ chat.links = 1

\* ------------------------------------------------------------- C13
\* C13: within one call of upload_file no service is called twice, and None is
\* returned exactly when every service of the list was called and failed.
C13_OnceEachAndNoneIffAllFailed ==
    Started =>
      /\ \A i, j \in 1..Len(pipe.invoked) : i # j => pipe.invoked[i] # pipe.invoked[j]
      /\ UploadReturned =>
           (pipe.link = "None" <=>
              /\ {pipe.invoked[i] : i \in 1..Len(pipe.invoked)} = {uploaders[i] : i \in 1..Len(uploaders)}
              /\ \A i \in 1..Len(pipe.results) : pipe.results[i] # "link")

\* the three services failed and the user was told so
C13_Witness ==
    /\ pipe.pc = "returned"
    /\ Len(pipe.invoked) = Len(uploaders)
    /\ pipe.link = "None"
    /\ chat.failures = 1

C15_DirectFailureFallsThrough ==
    (Finished /\ pipe.direct = "failed") =>
        /\ pipe.invoked # <<>>
        /\ pipe.link = "None" => Len(pipe.invoked) = Len(uploaders)

\* ------------------------------------------------------------- C16
\* C16: when download_media has returned, no file of the task is left in
\* DOWNLOAD_DIR, whatever the outcome.
C16_NoFileLeft == pipe.pc = "returned" => disk = {}

\* ------------------------------------------------------------- C18
\* C18: a status update that is neither the first nor the terminal one of its
\* task is sent at least 1.5 s after the update sent before it.
C18_MinimumInterval ==
    [][(chat.updates >= 1 /\ chat'.updates = chat.updates + 1 /\ ~chat'.last_terminal)
          => now' - chat.last_at >= THROTTLE_TICKS]_vars

\* ------------------------------------------------------------- C19
\* C19: the free permits plus the coroutines inside "async with
\* DOWNLOAD_SEMAPHORE" are always GLOBAL_MAX_CONCURRENT_DOWNLOADS: a permit is
\* released once on every way out of the block, never leaked, never doubled.
C19_PermitsConserved ==
    DOWNLOAD_SEMAPHORE.value + NumDownloading = GLOBAL_MAX_CONCURRENT_DOWNLOADS

\* a download raised while another coroutine waited for its permit
C19_Witness ==
    /\ \E l \in LoopSet : l.pc = "notify"
    /\ \E l \in LoopSet : l.pc = "woken"
    /\ NumDownloading = GLOBAL_MAX_CONCURRENT_DOWNLOADS - 1

\* ------------------------------------------------------------- C20
FailureTail == {"except", "finally", "returned", "raised", "reported", "loop died"}

\* C20: the stages run in the order fetch, validate, deliver; a delivery is
\* attempted only for a file that exists and holds at least 1024 bytes; after
\* an error of a stage no later stage runs.
C20_StagesInOrder ==
    Started =>
      /\ Len(pipe.stages) <= Len(Stages)
      /\ \A i \in 1..Len(pipe.stages) : pipe.stages[i] = Stages[i]
      /\ pipe.pc \in {"send_document", "upload_file", "send_link"} =>
            pipe.final_path \in disk
      /\ (pipe.direct # "not tried" \/ pipe.invoked # <<>> \/ Len(pipe.stages) = Len(Stages)) =>
            pipe.file_size >= MIN_FILE_BYTES /\ pipe.error \in {"None", "TelegramError"}
      /\ pipe.error # "None" => pipe.pc \in FailureTail

\* a file of 1023 bytes was rejected by the validation and never delivered
C20_Witness ==
    /\ pipe.pc = "returned"
    /\ pipe.error = "ValueError"
    /\ pipe.file_size = MIN_FILE_BYTES - 1
    /\ pipe.stages = <<"fetch", "validate">>
    /\ TerminalReports = 1

\* ------------------------------------------------------------- C17
\* the output kinds of the specification
ValidFormats == {"mp4", "mp3"}

\* C17: a submission whose format is outside the enumerated set leaves the
\* owner's list, queue.json and the processing loops as they were.
C17_InvalidSpecRejected ==
    [][\A uid \in UserIds, data \in FormatCallbackData :
          (queue_download_chosen(uid, data) /\ choose_format_callback(data) \notin ValidFormats)
             => UNCHANGED <<DOWNLOAD_QUEUE, QUEUE_FILE, loops>>]_vars

\* ------------------------------------------------------------- C21
\* C21: at every point where another coroutine can run, queue.json (once
\* written) holds exactly the in-memory DOWNLOAD_QUEUE: every append, pop(0)
\* and clear() is saved before the next await.
C21_SnapshotEqualsMemory ==
    IF QUEUE_FILE.exists
    THEN QUEUE_FILE.text = JsonDump(DOWNLOAD_QUEUE) /\ JsonLoad(QUEUE_FILE.text) = DOWNLOAD_QUEUE
    ELSE DOWNLOAD_QUEUE = EmptyDict

\* after appends, a pop and a clear: a task runs, one user's list was cleared,
\* another user's list still holds a task
C21_Witness ==
    /\ QUEUE_FILE.exists
    /\ Downloading # {}
    /\ cleared # {}
    /\ \E k, k2 \in Keys : k # k2 /\ k \in DOMAIN DOWNLOAD_QUEUE
                            /\ DOWNLOAD_QUEUE[k] = <<>> /\ QueuedTasks(k2) # {}

\* ------------------------------------------------------------- C23
\* C23: no key of DOWNLOAD_QUEUE, and none of queue.json, maps to an empty
\* list: a list that became empty by pop(0) or clear() is removed from the dict.
C23_NoEmptyList ==
    /\ \A k \in DOMAIN DOWNLOAD_QUEUE : DOWNLOAD_QUEUE[k] # <<>>
    /\ QUEUE_FILE.exists => \A k \in DOMAIN QUEUE_FILE.text : QUEUE_FILE.text[k] # <<>>

\* ------------------------------------------------------------- C25
\* C25: at most one process_queue_for_user coroutine is alive per user.
C25_OneLoopPerOwner == \A k \in Keys : NumLoopsOf(k) <= 1

\* ------------------------------------------------------------- C26
\* the tasks that a live coroutine has popped
HeldUrls == {l.task.url : l \in {x \in LoopSet : x.pc # "while"}}

AdmittedUrls == {a[2] : a \in admitted}

\* the loops that entered download_media in this step
Entering == {l \in LoopSet' : l.pc = "download" /\ (l \notin LoopSet \/ loops'[l] > loops[l])}

\* C26: a task enters download_media at most once: the step that admits it
\* finds it never admitted before; a task that was popped is neither in a list
\* nor in queue.json, also after a restart; no two coroutines hold the same task.
C26_RunAtMostOnce ==
    [][/\ \A l \in Entering : l.task.url \notin AdmittedUrls
       /\ \A k \in Keys : \A t \in QueuedTasks(k)' :
              t.url \notin AdmittedUrls' \cup HeldUrls'
       /\ \A k \in Keys : \A t \in PersistedTasks(k)' :
              TaskOfJson(t).url \notin AdmittedUrls' \cup HeldUrls'
       /\ \A l \in LoopSet' : l.pc # "while" => loops'[l] = 1]_vars

\* two loops of one user run two different tasks while a third is queued
C26_Witness ==
    \E l1, l2 \in Downloading :
        /\ l1.owner = l2.owner
        /\ l1.task.url # l2.task.url
        /\ QueuedTasks(l1.owner) # {}
        /\ QUEUE_FILE.exists

\* ------------------------------------------------------------- C24
\* C24: the elapsed time shown in a "downloading" update is the time since
\* download_media started (so it never decreases and never exceeds the time
\* since the submission).
C24_ElapsedSinceStart ==
    (Started /\ chat.elapsed.any) =>
        chat.elapsed.shown = format_elapsed(chat.elapsed.at - pipe.started_at)

\* ------------------------------------------------------------- C22
FailedWrites == WriteOutcomes \ {"written"}

\* C22: when the write of queue.json fails in queue_download or after the
\* pop(0) of a loop, the task concerned is dropped: it is not left in the list
\* and it does not enter download_media; the other users' lists and loops stay
\* as they were.
C22_FailedWriteDropsTask ==
    [][/\ \A uid \in UserIds, io \in FailedWrites :
             queue_download_write(uid, NewTask(uid, submitted + 1), io) =>
                 DOWNLOAD_QUEUE' = DOWNLOAD_QUEUE
       /\ \A l \in LoopSet, io \in FailedWrites :
             process_queue_pop_write(l, io) =>
                 /\ admitted' = admitted
                 /\ Head(DOWNLOAD_QUEUE[l.owner]).url \notin HeldUrls'
                 /\ \A k \in DOMAIN DOWNLOAD_QUEUE : k # l.owner => DOWNLOAD_QUEUE'[k] = DOWNLOAD_QUEUE[k]]_vars

====
